---- MODULE Spec2Model ----
(***************************************************************************)
(* Youtube-Clippa (src/main.py): a Flask service that turns a video URL    *)
(* into published clips.  create_clips starts one background thread per    *)
(* accepted submission; the thread (process_video_in_background) creates   *)
(* the job's record in the global dict `jobs`, runs the five stages of     *)
(* main() on fixed local file names, records the outcome and cleans up;    *)
(* get_clips_status reads the dict.                                        *)
(*                                                                         *)
(* One action is one access to state that other threads share (the dict    *)
(* `jobs`, the working directory): the statements between two such         *)
(* accesses touch only the thread's own locals.                            *)
(*                                                                         *)
(* Spec is the service: submissions, status queries and threads.           *)
(* FairSpec is the submissions and the threads under fair scheduling.      *)
(* CodecSpec is format_time and time_to_seconds called on their own.       *)
(***************************************************************************)
EXTENDS Integers, Sequences, FiniteSets, TLC

\* ------------------------------------------------------------------------
\* Bounds and inputs
\* ------------------------------------------------------------------------

\* Number of submissions that are accepted in a run (uuid4 values handed out).
MaxJobs == 2

\* The largest number of seconds given to format_time.
MaxSeconds == 200

JobIds == 1..MaxJobs

\* Identifiers a client may ask about: the ones create_clips can hand out and
\* one it never hands out.
QueryIds == 0..MaxJobs

\* Request bodies of POST /api/clips/create: `keys` are the keys of the JSON
\* object, `url` the value under 'url'.
Requests ==
    { [keys |-> {}, url |-> ""],
      [keys |-> {"url"}, url |-> "https://www.youtube.com/watch?v=a"],
      [keys |-> {"url"}, url |-> "https://youtu.be/a"],
      [keys |-> {"url"}, url |-> "http://youtu.be/a"] }

\* A topic as the segmentation model returns it.
Topic(t, s, e) == [title |-> t, start_time |-> s, end_time |-> e]

\* Values json.loads may give transcriptHighlights: `keys` are the keys of
\* the object, `topics` the list under 'topics'.
SegmentData ==
    { [keys |-> {}, topics |-> << >>],
      [keys |-> {"summary"}, topics |-> << >>],
      [keys |-> {"topics"}, topics |-> << >>],
      [keys |-> {"topics"}, topics |-> << Topic("Intro", "0:05", "1:10"),
                                           Topic("Q&A 1", "70", "2:30") >>],
      [keys |-> {"topics"}, topics |-> << Topic("Intro", "0:05", "1:10"),
                                           Topic("Q&A 1", "1:2:3", "x") >>] }

\* Strings given to time_to_seconds on its own.
TimeStrings ==
    { "2:30", "45", "0:05", "1:2:3", "1:2:3:4", "1:x:3", "x", "1:x", "x:1", "", ":",
      ":5", "5:", " 7 ", "1: 05", "-1:30", "1_0:00", "2.5", "1:2.5" }

\* ------------------------------------------------------------------------
\* State
\* ------------------------------------------------------------------------

VARIABLES
    jobs,          \* the dict `jobs`: job_id -> record
    th,            \* th[j]: the background thread of job j (position, locals)
    files,         \* files[f]: whether the temporary file f exists
    chapters,      \* whether the directory "chapters" exists
    chapterFiles,  \* the paths of the clip files in "chapters"
    nextId,        \* uuid4 values handed out so far
    submitted,     \* the answer create_clips sent in the step just taken
    query,         \* the status request being served
    response,      \* the answer get_clips_status sent in the step just taken
    codec          \* a call of format_time or time_to_seconds on its own

vars == << jobs, th, files, chapters, chapterFiles, nextId,
           submitted, query, response, codec >>

\* ------------------------------------------------------------------------
\* Pure functions
\* ------------------------------------------------------------------------

\* The i-th character of the string s.
Char(s, i) == SubSeq(s, i, i)

\* str.startswith(p)
StartsWith(s, p) == Len(s) >= Len(p) /\ SubSeq(s, 1, Len(p)) = p

\* youtube_url.startswith(('https://www.youtube.com/', 'https://youtu.be/'))
AcceptedPrefix(u) ==
    \/ StartsWith(u, "https://www.youtube.com/")
    \/ StartsWith(u, "https://youtu.be/")

\* data.get('url'): the value under 'url', or None (here "", equally falsy).
GetUrl(data) == IF "url" \in data.keys THEN data.url ELSE ""

\* str.split(':') from position i on; cur is the part being read.
RECURSIVE SplitColon(_, _, _, _)
SplitColon(s, i, cur, acc) ==
    IF i > Len(s) THEN Append(acc, cur)
    ELSE IF Char(s, i) = ":" THEN SplitColon(s, i + 1, "", Append(acc, cur))
    ELSE SplitColon(s, i + 1, cur \o Char(s, i), acc)

DigitChars == "0123456789"

IsDigit(c) == \E k \in 1..Len(DigitChars) : Char(DigitChars, k) = c

DigitVal(c) == (CHOOSE k \in 1..Len(DigitChars) : Char(DigitChars, k) = c) - 1

\* str.strip() of blanks.
RECURSIVE Strip(_)
Strip(s) ==
    IF Len(s) = 0 THEN s
    ELSE IF Char(s, 1) = " " THEN Strip(SubSeq(s, 2, Len(s)))
    ELSE IF Char(s, Len(s)) = " " THEN Strip(SubSeq(s, 1, Len(s) - 1))
    ELSE s

\* The digits of an integer literal: non-empty, digits with single
\* underscores between them.
IsDigitBody(s) ==
    /\ Len(s) > 0
    /\ IsDigit(Char(s, 1))
    /\ IsDigit(Char(s, Len(s)))
    /\ \A k \in 1..Len(s) : IsDigit(Char(s, k)) \/ Char(s, k) = "_"
    /\ \A k \in 1..(Len(s) - 1) : ~(Char(s, k) = "_" /\ Char(s, k + 1) = "_")

RECURSIVE DigitsValue(_, _, _)
DigitsValue(s, i, acc) ==
    IF i > Len(s) THEN acc
    ELSE IF Char(s, i) = "_" THEN DigitsValue(s, i + 1, acc)
    ELSE DigitsValue(s, i + 1, acc * 10 + DigitVal(Char(s, i)))

\* int(s): ok = FALSE stands for ValueError.
ParseInt(s) ==
    LET t == Strip(s)
        signed == Len(t) > 0 /\ Char(t, 1) \in {"+", "-"}
        body == IF signed THEN SubSeq(t, 2, Len(t)) ELSE t
        neg == signed /\ Char(t, 1) = "-"
    IN  IF IsDigitBody(body)
        THEN [ok |-> TRUE,
              val |-> IF neg THEN 0 - DigitsValue(body, 1, 0)
                      ELSE DigitsValue(body, 1, 0)]
        ELSE [ok |-> FALSE, val |-> 0]

\* time_to_seconds(time_str): ok = FALSE stands for the ValueError of int().
time_to_seconds(time_str) ==
    LET parts == SplitColon(time_str, 1, "", << >>)
        p1 == ParseInt(parts[1])
    IN  IF Len(parts) = 2
        THEN LET p2 == ParseInt(parts[2])
             IN  IF p1.ok /\ p2.ok
                 THEN [ok |-> TRUE, val |-> p1.val * 60 + p2.val]
                 ELSE [ok |-> FALSE, val |-> 0]
        ELSE p1

\* format_time with round(seconds / 60) for the minutes.
format_time_rounded_minutes(seconds) ==
    LET minutes == (seconds + 30) \div 60
        secs == seconds % 60
    IN  ToString(minutes) \o ":" \o ToString(secs)

\* format_time(seconds) for an integer: f"{minutes}:{seconds}" pads nothing.
format_time(seconds) ==
    LET minutes == seconds \div 60
        secs == seconds % 60
    IN  ToString(minutes) \o ":" \o ToString(secs)

AlnumChars == "abcdefghijklmnopqrstuvwxyzABCDEFGHIJKLMNOPQRSTUVWXYZ0123456789"

IsAlnum(c) == \E k \in 1..Len(AlnumChars) : Char(AlnumChars, k) = c

\* The two statements of trimVideo that make clean_title.
RECURSIVE CleanTitle(_)
CleanTitle(title) ==
    IF Len(title) = 0 THEN ""
    ELSE LET c == Char(title, 1)
             kept == IF IsAlnum(c) \/ c \in {" ", "_"} THEN c ELSE "_"
         IN  (IF kept = " " THEN "_" ELSE kept)
                 \o CleanTitle(SubSeq(title, 2, Len(title)))

\* output_filename of the i-th topic (i counts from 0, as enumerate does).
OutputFilename(i, topic) ==
    "chapters/clip_" \o ToString(i + 1) \o "_" \o CleanTitle(topic.title) \o ".mp4"

\* blob.public_url of the blob named by the file.
PublicUrl(filename) == "https://storage.googleapis.com/bucket/" \o filename

\* The topics of SegmentData.
AllTopics ==
    UNION { { d.topics[k] : k \in 1..Len(d.topics) } : d \in SegmentData }

\* time_to_seconds on the time strings of SegmentData, evaluated once for
\* each string.
TimeTable ==
    [x \in { tp.start_time : tp \in AllTopics } \cup { tp.end_time : tp \in AllTopics }
        |-> time_to_seconds(x)]

\* The length of the longest topic list of SegmentData.
MaxTopics ==
    CHOOSE n \in { Len(d.topics) : d \in SegmentData } :
        \A d \in SegmentData : Len(d.topics) <= n

\* output_filename for each position and title of SegmentData, evaluated once
\* for each pair.
FilenameTable ==
    [i \in 0..(MaxTopics - 1) |->
        [title \in { tp.title : tp \in AllTopics } |-> OutputFilename(i, [title |-> title])]]

\* Python truth value of a dict with these keys.
Truthy(d) == d.keys # {}

\* d[k] = v on a Python dict (the key is added when missing).
DictSet(d, k, v) == [x \in DOMAIN d \cup {k} |-> IF x = k THEN v ELSE d[x]]

\* ------------------------------------------------------------------------
\* Initial state
\* ------------------------------------------------------------------------

\* temp_files of process_video_in_background, in its order.
TempFiles == << "output.mp4", "audio.mp3", "transcripts.txt", "topic_segments.json" >>

TempFileSet == { TempFiles[k] : k \in 1..Len(TempFiles) }

\* A thread that does not exist yet.
NoThread ==
    [ pc |-> "none", url |-> "", video_path |-> "", audio_path |-> "",
      transcript_path |-> "", transcript_content |-> "", segments_path |-> "",
      segment_data |-> [keys |-> {}, topics |-> << >>],
      i |-> 0, created_clips |-> << >>, exit |-> "", clips |-> << >>,
      error |-> "" ]

\* No answer was sent in the step just taken.
NoResponse == [code |-> 0, request |-> 0, body |-> [success |-> FALSE]]

NoQuery == [pc |-> "idle", job_id |-> 0, status |-> ""]

\* No call of the time functions on its own.
NoCodec ==
    [pc |-> "none", call |-> "", seconds |-> 0, time_str |-> "",
     result |-> [ok |-> FALSE, val |-> 0]]

\* The service after the module is loaded: no job, no thread, no file.
InitService ==
    /\ jobs = << >>
    /\ th = [j \in JobIds |-> NoThread]
    /\ files = [f \in TempFileSet |-> FALSE]
    /\ chapters = FALSE
    /\ chapterFiles = {}
    /\ nextId = 0
    /\ submitted = NoResponse
    /\ query = NoQuery
    /\ response = NoResponse

Init ==
    /\ InitService
    /\ codec = NoCodec

\* ------------------------------------------------------------------------
\* POST /api/clips/create
\* ------------------------------------------------------------------------

\* create_clips without the startswith test of line 331.
create_clips_any_url(data) ==
    LET youtube_url == GetUrl(data) IN
    /\ IF youtube_url = ""
       THEN /\ submitted' = [code |-> 400, request |-> data,
                             body |-> [success |-> FALSE, error |-> "Missing Youtube URL"]]
            /\ UNCHANGED << th, nextId >>
       ELSE /\ nextId < MaxJobs
            /\ nextId' = nextId + 1
            /\ th' = [th EXCEPT ![nextId + 1] =
                          [NoThread EXCEPT !.pc = "start", !.url = youtube_url]]
            /\ submitted' = [code |-> 202, request |-> data,
                             body |-> [success |-> TRUE, job_id |-> nextId + 1,
                                       message |-> "Processing started"]]
    /\ response' = NoResponse
    /\ UNCHANGED << jobs, files, chapters, chapterFiles, query, codec >>

\* create_clips with thread.join() on the threads started before: an
\* accepted submission is not answered while a thread runs.
create_clips_after_join(data) ==
    LET youtube_url == GetUrl(data) IN
    /\ IF youtube_url = ""
       THEN /\ submitted' = [code |-> 400, request |-> data,
                             body |-> [success |-> FALSE, error |-> "Missing Youtube URL"]]
            /\ UNCHANGED << th, nextId >>
       ELSE IF ~AcceptedPrefix(youtube_url)
       THEN /\ submitted' = [code |-> 400, request |-> data,
                             body |-> [success |-> FALSE, error |-> "Invalid Youtube URL"]]
            /\ UNCHANGED << th, nextId >>
       ELSE /\ nextId < MaxJobs
            /\ \A k \in JobIds : th[k].pc \in {"none", "done"}
            /\ nextId' = nextId + 1
            /\ th' = [th EXCEPT ![nextId + 1] =
                          [NoThread EXCEPT !.pc = "start", !.url = youtube_url]]
            /\ submitted' = [code |-> 202, request |-> data,
                             body |-> [success |-> TRUE, job_id |-> nextId + 1,
                                       message |-> "Processing started"]]
    /\ response' = NoResponse
    /\ UNCHANGED << jobs, files, chapters, chapterFiles, query, codec >>

create_clips(data) ==
    LET youtube_url == GetUrl(data) IN
    /\ IF youtube_url = ""
       THEN /\ submitted' = [code |-> 400, request |-> data,
                             body |-> [success |-> FALSE, error |-> "Missing Youtube URL"]]
            /\ UNCHANGED << th, nextId >>
       ELSE IF ~AcceptedPrefix(youtube_url)
       THEN /\ submitted' = [code |-> 400, request |-> data,
                             body |-> [success |-> FALSE, error |-> "Invalid Youtube URL"]]
            /\ UNCHANGED << th, nextId >>
       ELSE /\ nextId < MaxJobs
            /\ nextId' = nextId + 1
            /\ th' = [th EXCEPT ![nextId + 1] =
                          [NoThread EXCEPT !.pc = "start", !.url = youtube_url]]
            /\ submitted' = [code |-> 202, request |-> data,
                             body |-> [success |-> TRUE, job_id |-> nextId + 1,
                                       message |-> "Processing started"]]
    /\ response' = NoResponse
    /\ UNCHANGED << jobs, files, chapters, chapterFiles, query, codec >>

\* ------------------------------------------------------------------------
\* GET /api/clips/<job_id>
\* ------------------------------------------------------------------------

\* get_clips_status_lookup with jobs.setdefault(job_id, {...}) in place of
\* the membership test.
get_clips_status_lookup_setdefault(job_id) ==
    /\ query.pc = "idle"
    /\ jobs' = IF job_id \in DOMAIN jobs THEN jobs
               ELSE DictSet(jobs, job_id, [status |-> "processing", created_at |-> nextId,
                                           clips |-> << >>])
    /\ query' = [pc |-> "clips", job_id |-> job_id, status |-> jobs'[job_id].status]
    /\ response' = NoResponse
    /\ submitted' = NoResponse
    /\ UNCHANGED << th, files, chapters, chapterFiles, nextId, codec >>

\* Lines 360-370: the lookup and the read of 'status'.  No step removes a
\* record, so the lookup is taken at the instant 'status' is read.
get_clips_status_lookup(job_id) ==
    /\ query.pc = "idle"
    /\ IF job_id \notin DOMAIN jobs
       THEN /\ response' = [code |-> 404, request |-> job_id,
                            body |-> [success |-> FALSE, error |-> "Job not found"]]
            /\ UNCHANGED query
       ELSE /\ query' = [pc |-> "clips", job_id |-> job_id,
                         status |-> jobs[job_id].status]
            /\ response' = NoResponse
    /\ submitted' = NoResponse
    /\ UNCHANGED << jobs, th, files, chapters, chapterFiles, nextId, codec >>

\* Lines 371-373: the reads of 'created_at' (which no step rewrites) and of
\* 'clips', job_data.get('clips', []), and the answer.
get_clips_status_respond ==
    /\ query.pc = "clips"
    /\ response' = [code |-> 200, request |-> query.job_id,
                    body |-> [success |-> TRUE, job_id |-> query.job_id,
                              status |-> query.status,
                              created_at |-> jobs[query.job_id].created_at,
                              clips |-> IF "clips" \in DOMAIN jobs[query.job_id]
                                        THEN jobs[query.job_id].clips ELSE << >>]]
    /\ query' = NoQuery
    /\ submitted' = NoResponse
    /\ UNCHANGED << jobs, th, files, chapters, chapterFiles, nextId, codec >>

\* ------------------------------------------------------------------------
\* The background thread: process_video_in_background and main
\* ------------------------------------------------------------------------

\* datetime.now(): time is counted in accepted submissions.
Now == nextId

\* A step of a thread answers no request and touches no request's state.
RunnerFrame ==
    /\ submitted' = NoResponse
    /\ response' = NoResponse
    /\ UNCHANGED << nextId, query, codec >>

\* main returns `clips` from the stage `exit` (<< >> stands for None and for
\* []): the thread is at line 256 and the locals of main are gone.  The
\* stage main left from, the answer of the segmentation model and the clips
\* trimVideo appended are kept as a record of the run.
Returned(t, exit, clips) ==
    [NoThread EXCEPT !.pc = "update", !.exit = exit,
                     !.segment_data = t.segment_data,
                     !.created_clips = t.created_clips, !.clips = clips]

\* Lines 246-250: the record is created by the thread.
process_video_in_background_init(j) ==
    /\ th[j].pc = "start"
    /\ jobs' = DictSet(jobs, j, [status |-> "processing", created_at |-> Now,
                                 clips |-> << >>])
    /\ th' = [th EXCEPT ![j].pc = "download"]
    /\ UNCHANGED << files, chapters, chapterFiles >>
    /\ RunnerFrame

\* downloadVideo and line 286.  yt-dlp leaves its download in output.mp4
\* (or finds a file of that name there); an exception gives None.
downloadVideo(j) ==
    /\ th[j].pc = "download"
    /\ \/ /\ files' = [files EXCEPT !["output.mp4"] = TRUE]
          /\ th' = [th EXCEPT ![j].pc = "audio", ![j].url = "",
                                ![j].video_path = "output.mp4"]
       \/ /\ UNCHANGED files
          /\ th' = [th EXCEPT ![j] = Returned(@, "fetch", << >>)]
    /\ UNCHANGED << jobs, chapters, chapterFiles >>
    /\ RunnerFrame

\* getAudio with `return audio_file` after the try block: the name comes back
\* on an exception as well, and main goes on.
getAudio_returns_name_anyway(j) ==
    /\ th[j].pc = "audio"
    /\ \/ /\ files[th[j].video_path]
          /\ files' = [files EXCEPT !["audio.mp3"] = TRUE]
       \/ UNCHANGED files
    /\ th' = [th EXCEPT ![j].pc = "transcribe", ![j].audio_path = "audio.mp3"]
    /\ UNCHANGED << jobs, chapters, chapterFiles >>
    /\ RunnerFrame

\* getAudio and line 290.  ffmpeg reads output.mp4 and overwrites audio.mp3.
getAudio(j) ==
    /\ th[j].pc = "audio"
    /\ \/ /\ files[th[j].video_path]
          /\ files' = [files EXCEPT !["audio.mp3"] = TRUE]
          /\ th' = [th EXCEPT ![j].pc = "transcribe", ![j].audio_path = "audio.mp3"]
       \/ /\ UNCHANGED files
          /\ th' = [th EXCEPT ![j] = Returned(@, "audio", << >>)]
    /\ UNCHANGED << jobs, chapters, chapterFiles >>
    /\ RunnerFrame

\* The joined text of the segments whisper may return.
Transcripts == {"", "some words"}

\* generateTranscripts and line 295.  It opens audio.mp3, writes
\* transcripts.txt and returns the joined text; an exception gives None, None.
generateTranscripts(j) ==
    /\ th[j].pc = "transcribe"
    /\ \/ /\ files[th[j].audio_path]
          /\ files' = [files EXCEPT !["transcripts.txt"] = TRUE]
          /\ \E full_transcript \in Transcripts :
                th' = [th EXCEPT ![j] =
                    LET t == [@ EXCEPT !.transcript_path = "transcripts.txt",
                                       !.transcript_content = full_transcript]
                    IN  IF full_transcript = "" THEN Returned(t, "transcribe", << >>)
                        ELSE [t EXCEPT !.pc = "highlights"]]
       \/ /\ UNCHANGED files
          /\ th' = [th EXCEPT ![j] = Returned(@, "transcribe", << >>)]
    /\ UNCHANGED << jobs, chapters, chapterFiles >>
    /\ RunnerFrame

\* transcriptHighlights and line 301.  The model's answer is parsed, written
\* to topic_segments.json and returned; an exception gives None, None.
transcriptHighlights(j) ==
    /\ th[j].pc = "highlights"
    /\ \/ /\ files' = [files EXCEPT !["topic_segments.json"] = TRUE]
          /\ \E topic_segments \in SegmentData :
                th' = [th EXCEPT ![j] =
                    LET t == [@ EXCEPT !.segments_path = "topic_segments.json",
                                       !.segment_data = topic_segments]
                    IN  IF ~Truthy(topic_segments) THEN Returned(t, "segment", << >>)
                        ELSE [t EXCEPT !.pc = "trim_exists"]]
       \/ /\ UNCHANGED files
          /\ th' = [th EXCEPT ![j] = Returned(@, "segment", << >>)]
    /\ UNCHANGED << jobs, chapters, chapterFiles >>
    /\ RunnerFrame

\* The head of the for loop of trimVideo: the next topic, or line 232.
NextTopic(t) ==
    IF t.i < Len(t.segment_data.topics) THEN [t EXCEPT !.pc = "trim_cut"]
    ELSE [t EXCEPT !.pc = "trim_rmdir"]

\* Line 194: segments['topics'] raises KeyError inside the outer try, which
\* returns None (line 237).
EnterLoop(t) ==
    IF "topics" \in t.segment_data.keys THEN NextTopic(t)
    ELSE Returned(t, "trim_except", << >>)

\* Line 189: os.path.exists(output_dir).
trimVideo_exists(j) ==
    /\ th[j].pc = "trim_exists"
    /\ th' = [th EXCEPT ![j] = IF chapters THEN EnterLoop(@)
                               ELSE [@ EXCEPT !.pc = "trim_makedirs"]]
    /\ UNCHANGED << jobs, files, chapters, chapterFiles >>
    /\ RunnerFrame

\* trimVideo_makedirs in a thread whose target has no try block: the
\* FileExistsError ends the thread.
trimVideo_makedirs_uncaught(j) ==
    /\ th[j].pc = "trim_makedirs"
    /\ IF chapters
       THEN /\ th' = [th EXCEPT ![j] =
                        [NoThread EXCEPT !.pc = "done",
                                         !.exit = "raise",
                                         !.segment_data = th[j].segment_data]]
            /\ UNCHANGED chapters
       ELSE /\ chapters' = TRUE
            /\ th' = [th EXCEPT ![j] = EnterLoop(@)]
    /\ UNCHANGED << jobs, files, chapterFiles >>
    /\ RunnerFrame

\* Line 190: os.makedirs(output_dir), outside every try of trimVideo and of
\* main: FileExistsError reaches the except of process_video_in_background.
trimVideo_makedirs(j) ==
    /\ th[j].pc = "trim_makedirs"
    /\ IF chapters
       THEN /\ th' = [th EXCEPT ![j] =
                        [NoThread EXCEPT !.pc = "except",
                                         !.exit = "raise",
                                         !.segment_data = th[j].segment_data,
                                         !.error = "[Errno 17] File exists: 'chapters'"]]
            /\ UNCHANGED chapters
       ELSE /\ chapters' = TRUE
            /\ th' = [th EXCEPT ![j] = EnterLoop(@)]
    /\ UNCHANGED << jobs, files, chapterFiles >>
    /\ RunnerFrame

\* Lines 196-215 for topic i: the two time_to_seconds calls (ValueError is
\* caught by the outer try: return None), then ffmpeg, which needs the video
\* and the directory and does not overwrite an existing output file.
trimVideo_cut(j) ==
    /\ th[j].pc = "trim_cut"
    /\ LET t == th[j]
           topic == t.segment_data.topics[t.i + 1]
           start == TimeTable[topic.start_time]
           end == TimeTable[topic.end_time]
           output_filename == FilenameTable[t.i][topic.title]
       IN  IF ~start.ok \/ ~end.ok
           THEN /\ th' = [th EXCEPT ![j] = Returned(@, "trim_except", << >>)]
                /\ UNCHANGED chapterFiles
           ELSE \/ /\ files[t.video_path]
                   /\ chapters
                   /\ output_filename \notin chapterFiles
                   /\ chapterFiles' = chapterFiles \cup {output_filename}
                   /\ th' = [th EXCEPT ![j].pc = "trim_upload"]
                \/ /\ UNCHANGED chapterFiles
                   /\ th' = [th EXCEPT ![j] = NextTopic([@ EXCEPT !.i = @ + 1])]
    /\ UNCHANGED << jobs, files, chapters >>
    /\ RunnerFrame

\* trimVideo_upload with 'title': clean_title in the appended clip.
trimVideo_upload_clean_title(j) ==
    /\ th[j].pc = "trim_upload"
    /\ LET t == th[j]
           topic == t.segment_data.topics[t.i + 1]
           output_filename == FilenameTable[t.i][topic.title]
       IN  \/ /\ chapterFiles' = chapterFiles \ {output_filename}
              /\ th' = [th EXCEPT ![j] = NextTopic(
                            [@ EXCEPT !.i = @ + 1,
                                      !.created_clips = Append(@,
                                          [title |-> CleanTitle(topic.title),
                                           url |-> PublicUrl(output_filename)])])]
           \/ /\ UNCHANGED chapterFiles
              /\ th' = [th EXCEPT ![j] = NextTopic([@ EXCEPT !.i = @ + 1])]
    /\ UNCHANGED << jobs, files, chapters >>
    /\ RunnerFrame

\* trimVideo_upload with os.remove(output_filename) in a finally clause of
\* the inner try: the file goes whether or not the upload succeeded.
trimVideo_upload_always_removes(j) ==
    /\ th[j].pc = "trim_upload"
    /\ LET t == th[j]
           topic == t.segment_data.topics[t.i + 1]
           output_filename == FilenameTable[t.i][topic.title]
       IN  /\ chapterFiles' = chapterFiles \ {output_filename}
           /\ \/ th' = [th EXCEPT ![j] = NextTopic(
                            [@ EXCEPT !.i = @ + 1,
                                      !.created_clips = Append(@,
                                          [title |-> topic.title,
                                           url |-> PublicUrl(output_filename)])])]
              \/ th' = [th EXCEPT ![j] = NextTopic([@ EXCEPT !.i = @ + 1])]
    /\ UNCHANGED << jobs, files, chapters >>
    /\ RunnerFrame

\* Lines 217-229 for topic i: upload and make_public; on success the clip is
\* appended and the local file removed, on an exception neither happens.
trimVideo_upload(j) ==
    /\ th[j].pc = "trim_upload"
    /\ LET t == th[j]
           topic == t.segment_data.topics[t.i + 1]
           output_filename == FilenameTable[t.i][topic.title]
       IN  \/ /\ chapterFiles' = chapterFiles \ {output_filename}
              /\ th' = [th EXCEPT ![j] = NextTopic(
                            [@ EXCEPT !.i = @ + 1,
                                      !.created_clips = Append(@,
                                          [title |-> topic.title,
                                           url |-> PublicUrl(output_filename)])])]
           \/ /\ UNCHANGED chapterFiles
              /\ th' = [th EXCEPT ![j] = NextTopic([@ EXCEPT !.i = @ + 1])]
    /\ UNCHANGED << jobs, files, chapters >>
    /\ RunnerFrame

\* Lines 232-237 and 307: os.rmdir fails on a missing or non-empty directory
\* (caught: return None); main turns an empty list into None.
trimVideo_rmdir(j) ==
    /\ th[j].pc = "trim_rmdir"
    /\ IF chapters /\ chapterFiles = {}
       THEN /\ chapters' = FALSE
            /\ th' = [th EXCEPT ![j] = Returned(@, "trim", @.created_clips)]
       ELSE /\ UNCHANGED chapters
            /\ th' = [th EXCEPT ![j] = Returned(@, "trim_rmdir", << >>)]
    /\ UNCHANGED << jobs, files, chapterFiles >>
    /\ RunnerFrame

\* set_status with `if clips is not None` and a main that returns the empty
\* list of trimVideo as it is.
set_status_empty_list_completes(j) ==
    /\ th[j].pc = "update"
    /\ IF th[j].clips # << >> \/ th[j].exit = "trim"
       THEN /\ jobs' = [jobs EXCEPT ![j] = DictSet(@, "status", "completed")]
            /\ th' = [th EXCEPT ![j].pc = "set_clips"]
       ELSE /\ jobs' = [jobs EXCEPT ![j] = DictSet(@, "status", "failed")]
            /\ th' = [th EXCEPT ![j].pc = "set_error"]
    /\ UNCHANGED << files, chapters, chapterFiles >>
    /\ RunnerFrame

\* Lines 256, 257 and 260: the branch on `clips` and the write of 'status'.
set_status(j) ==
    /\ th[j].pc = "update"
    /\ IF th[j].clips # << >>
       THEN /\ jobs' = [jobs EXCEPT ![j] = DictSet(@, "status", "completed")]
            /\ th' = [th EXCEPT ![j].pc = "set_clips"]
       ELSE /\ jobs' = [jobs EXCEPT ![j] = DictSet(@, "status", "failed")]
            /\ th' = [th EXCEPT ![j].pc = "set_error"]
    /\ UNCHANGED << files, chapters, chapterFiles >>
    /\ RunnerFrame

\* set_clips with an exception raised after the write (by line 263, say):
\* the except block runs after 'completed' was written.
set_clips_then_raise(j) ==
    /\ th[j].pc = "set_clips"
    /\ jobs' = [jobs EXCEPT ![j] = DictSet(@, "clips", th[j].clips)]
    /\ th' = [th EXCEPT ![j].pc = "except", ![j].error = "raised"]
    /\ UNCHANGED << files, chapters, chapterFiles >>
    /\ RunnerFrame

\* Line 258.
set_clips(j) ==
    /\ th[j].pc = "set_clips"
    /\ jobs' = [jobs EXCEPT ![j] = DictSet(@, "clips", th[j].clips)]
    /\ th' = [th EXCEPT ![j].pc = "cleanup"]
    /\ UNCHANGED << files, chapters, chapterFiles >>
    /\ RunnerFrame

\* set_error without the write of line 261.
set_error_no_diagnostic(j) ==
    /\ th[j].pc = "set_error"
    /\ th' = [th EXCEPT ![j].pc = "cleanup"]
    /\ UNCHANGED << jobs, files, chapters, chapterFiles >>
    /\ RunnerFrame

\* Line 261.
set_error(j) ==
    /\ th[j].pc = "set_error"
    /\ jobs' = [jobs EXCEPT ![j] = DictSet(@, "error", "Failed to generate video")]
    /\ th' = [th EXCEPT ![j].pc = "cleanup"]
    /\ UNCHANGED << files, chapters, chapterFiles >>
    /\ RunnerFrame

\* Line 267, after an exception left main.
except_status(j) ==
    /\ th[j].pc = "except"
    /\ jobs' = [jobs EXCEPT ![j] = DictSet(@, "status", "failed")]
    /\ th' = [th EXCEPT ![j].pc = "except_error"]
    /\ UNCHANGED << files, chapters, chapterFiles >>
    /\ RunnerFrame

\* except_error with the removal of the temporary files at the end of the
\* try block in place of the finally block: this path skips it.
except_error_no_finally(j) ==
    /\ th[j].pc = "except_error"
    /\ jobs' = [jobs EXCEPT ![j] = DictSet(@, "error", th[j].error)]
    /\ th' = [th EXCEPT ![j] =
                  [NoThread EXCEPT !.pc = "done", !.exit = th[j].exit,
                                   !.segment_data = th[j].segment_data,
                                   !.created_clips = th[j].created_clips]]
    /\ UNCHANGED << files, chapters, chapterFiles >>
    /\ RunnerFrame

\* Line 268: str(e).
except_error(j) ==
    /\ th[j].pc = "except_error"
    /\ jobs' = [jobs EXCEPT ![j] = DictSet(@, "error", th[j].error)]
    /\ th' = [th EXCEPT ![j].pc = "cleanup"]
    /\ UNCHANGED << files, chapters, chapterFiles >>
    /\ RunnerFrame

\* cleanup with `del jobs[job_id]` at the end of the finally block.
cleanup_deletes_record(j) ==
    /\ th[j].pc = "cleanup"
    /\ files' = [f \in TempFileSet |-> FALSE]
    /\ jobs' = [x \in DOMAIN jobs \ {j} |-> jobs[x]]
    /\ th' = [th EXCEPT ![j] =
                  [NoThread EXCEPT !.pc = "done", !.exit = th[j].exit,
                                   !.segment_data = th[j].segment_data,
                                   !.created_clips = th[j].created_clips]]
    /\ UNCHANGED << chapters, chapterFiles >>
    /\ RunnerFrame

\* Lines 270-279: the finally block removes every temporary file that
\* exists, whichever job wrote it, and the thread ends.  The loop is taken
\* as one step.
cleanup(j) ==
    /\ th[j].pc = "cleanup"
    /\ files' = [f \in TempFileSet |-> FALSE]
    /\ th' = [th EXCEPT ![j] =
                  [NoThread EXCEPT !.pc = "done", !.exit = th[j].exit,
                                   !.segment_data = th[j].segment_data,
                                   !.created_clips = th[j].created_clips]]
    /\ UNCHANGED << jobs, chapters, chapterFiles >>
    /\ RunnerFrame

\* ------------------------------------------------------------------------
\* The time functions on their own
\* ------------------------------------------------------------------------

\* A call of format_time on a number of seconds, whose result is then given
\* to time_to_seconds, or a call of time_to_seconds on a string.
CodecInit ==
    /\ InitService
    /\ codec \in
          { [NoCodec EXCEPT !.pc = "format_time", !.call = "format_time", !.seconds = n]
                : n \in 0..MaxSeconds }
          \cup
          { [NoCodec EXCEPT !.pc = "time_to_seconds", !.call = "time_to_seconds",
                             !.time_str = x] : x \in TimeStrings }

call_format_time ==
    /\ codec.pc = "format_time"
    /\ codec' = [codec EXCEPT !.pc = "time_to_seconds",
                               !.time_str = format_time(codec.seconds)]
    /\ UNCHANGED << jobs, th, files, chapters, chapterFiles, nextId,
                    submitted, query, response >>

call_time_to_seconds ==
    /\ codec.pc = "time_to_seconds"
    /\ codec' = [codec EXCEPT !.pc = "returned",
                               !.result = time_to_seconds(codec.time_str)]
    /\ UNCHANGED << jobs, th, files, chapters, chapterFiles, nextId,
                    submitted, query, response >>

CodecNext == call_format_time \/ call_time_to_seconds

CodecSpec == CodecInit /\ [][CodecNext]_vars

\* ------------------------------------------------------------------------
\* Specification
\* ------------------------------------------------------------------------

Next ==
    \/ \E data \in Requests : create_clips(data)
    \/ \E job_id \in QueryIds : get_clips_status_lookup(job_id)
    \/ get_clips_status_respond
    \/ \E j \in JobIds : process_video_in_background_init(j)
    \/ \E j \in JobIds : downloadVideo(j)
    \/ \E j \in JobIds : getAudio(j)
    \/ \E j \in JobIds : generateTranscripts(j)
    \/ \E j \in JobIds : transcriptHighlights(j)
    \/ \E j \in JobIds : trimVideo_exists(j)
    \/ \E j \in JobIds : trimVideo_makedirs(j)
    \/ \E j \in JobIds : trimVideo_cut(j)
    \/ \E j \in JobIds : trimVideo_upload(j)
    \/ \E j \in JobIds : trimVideo_rmdir(j)
    \/ \E j \in JobIds : set_status(j)
    \/ \E j \in JobIds : set_clips(j)
    \/ \E j \in JobIds : set_error(j)
    \/ \E j \in JobIds : except_status(j)
    \/ \E j \in JobIds : except_error(j)
    \/ \E j \in JobIds : cleanup(j)

Spec == Init /\ [][Next]_vars

\* A step of the thread of job j.
Runner(j) ==
    \/ process_video_in_background_init(j)
    \/ downloadVideo(j)
    \/ getAudio(j)
    \/ generateTranscripts(j)
    \/ transcriptHighlights(j)
    \/ trimVideo_exists(j)
    \/ trimVideo_makedirs(j)
    \/ trimVideo_cut(j)
    \/ trimVideo_upload(j)
    \/ trimVideo_rmdir(j)
    \/ set_status(j)
    \/ set_clips(j)
    \/ set_error(j)
    \/ except_status(j)
    \/ except_error(j)
    \/ cleanup(j)

\* The submissions and the threads.  The status queries, which write nothing
\* a thread reads, are left to Spec.
RunnerNext ==
    \/ \E data \in Requests : create_clips(data)
    \/ \E j \in JobIds : Runner(j)

\* A started thread (daemon, line 341-343) that can take a step is scheduled
\* in the end, and every call it makes returns or raises.
FairSpec ==
    /\ Init
    /\ [][RunnerNext]_vars
    /\ \A j \in JobIds : WF_vars(Runner(j))

\* ------------------------------------------------------------------------
\* Properties
\* ------------------------------------------------------------------------

\* Identifiers create_clips has returned so far.
Returned_ids == 1..nextId

Terminal == {"completed", "failed"}

\* The thread of job r holds the path f in a local of main.
Holds(t, f) ==
    \/ f = "output.mp4" /\ t.video_path = f
    \/ f = "audio.mp3" /\ t.audio_path = f
    \/ f = "transcripts.txt" /\ t.transcript_path = f
    \/ f = "topic_segments.json" /\ t.segments_path = f

\* The thread is inside trimVideo, after the directory was found or made.
InTrim(t) == t.pc \in {"trim_cut", "trim_upload", "trim_rmdir"}

\* C1: in every state of the store, hence in every state a status query can
\* observe, a job is completed exactly when its clips are non-empty and
\* failed exactly when its error is set; and no answer shows completed with
\* an empty clip list.
C1_TerminalPayloadAtomic ==
    /\ \A j \in DOMAIN jobs :
          /\ jobs[j].status = "completed" <=> jobs[j].clips # << >>
          /\ jobs[j].status = "failed" <=> "error" \in DOMAIN jobs[j]
    /\ response.code = 200 =>
          (response.body.status = "completed" <=> response.body.clips # << >>)

\* C2: once create_clips has returned an identifier, no status query for it
\* is answered 404.
C2_FoundAfterReturn ==
    response.code = 404 => response.request \notin Returned_ids

\* C3: a step changes a job's status only from 'processing' to a terminal
\* status; a terminal status is never changed and its record never removed.
C3_TerminalAbsorbing ==
    [][\A j \in DOMAIN jobs :
          /\ j \in DOMAIN jobs'
          /\ jobs[j].status \in Terminal => jobs'[j].status = jobs[j].status
          /\ jobs'[j].status # jobs[j].status => jobs'[j].status \in Terminal]_vars

\* A job is completed, its thread over, while the other job has failed.
C3_Witness ==
    /\ th[1].pc = "done" /\ jobs[1].status = "completed"
    /\ th[2].pc = "done" /\ jobs[2].status = "failed"

\* C4: a job whose trimVideo went through its topics and produced at least
\* one clip ends completed with exactly the clips produced and no error.
C4_PartialSuccessCompletes ==
    \A j \in JobIds :
        (th[j].pc = "done" /\ th[j].created_clips # << >> /\ th[j].exit # "trim_except")
            => /\ jobs[j].status = "completed"
               /\ jobs[j].clips = th[j].created_clips
               /\ "error" \notin DOMAIN jobs[j]

\* The segmentation model answered with an empty list of topics.
EmptyTopicList(t) == "topics" \in t.segment_data.keys /\ t.segment_data.topics = << >>

C6_StageFailureFails ==
    \A j \in JobIds :
        (th[j].pc = "done" /\ th[j].exit \in {"fetch", "audio", "transcribe", "segment"})
            => /\ jobs[j].status = "failed"
               /\ "error" \in DOMAIN jobs[j] /\ jobs[j].error # ""
               /\ jobs[j].clips = << >>

\* One job is over after a failed fetch, the other after a failed
\* segmentation.
C6_Witness ==
    /\ th[1].pc = "done" /\ th[1].exit = "fetch"
    /\ th[2].pc = "done" /\ th[2].exit = "segment"

\* The request has no URL or one with no accepted prefix.
InvalidSource(data) == GetUrl(data) = "" \/ ~AcceptedPrefix(GetUrl(data))

\* C7: a submission with a missing or unaccepted URL is answered 400 in the
\* step that takes it, which starts no thread and leaves the store as it
\* is; every thread and every record belongs to an identifier that an
\* accepted submission returned.
C7_InvalidSourceRejected ==
    /\ [][(submitted'.code # 0 /\ InvalidSource(submitted'.request))
             => (submitted'.code = 400 /\ UNCHANGED << jobs, th, nextId >>)]_vars
    /\ [](/\ DOMAIN jobs \subseteq Returned_ids
          /\ \A j \in JobIds : th[j].pc # "none" <=> j \in Returned_ids
          /\ \A j \in JobIds : th[j].url # "" => AcceptedPrefix(th[j].url))

\* A URL with a wrong scheme was refused while one job is in the store.
C7_Witness ==
    /\ submitted.code = 400
    /\ submitted.body.error = "Invalid Youtube URL"
    /\ DOMAIN jobs = {1}

\* C8: a status query for an identifier no submission returned is answered
\* 404, in a step that leaves the store as it is.
C8_UnknownIdNotFound ==
    [][(response'.code # 0 /\ response'.request \notin 1..nextId')
          => (response'.code = 404 /\ jobs' = jobs)]_vars

\* An unknown identifier was asked for while the store holds a completed and
\* a running job.
C8_Witness ==
    /\ response.code = 404
    /\ response.request \notin Returned_ids
    /\ DOMAIN jobs = {1, 2}
    /\ jobs[1].status = "completed"
    /\ jobs[2].status = "processing"

\* C9: the answer to a status query that shows 'failed' carries the job's
\* non-empty error string.
C9_FailedShowsDiagnostic ==
    (response.code = 200 /\ response.body.status = "failed")
        => ("error" \in DOMAIN response.body /\ response.body.error # "")

\* C10: while a thread holds a temporary path and takes no step, no step of
\* another thread creates, removes or takes over that path; while a thread
\* is inside trimVideo and takes no step, the clip directory stays.
C10_OwnNamespace ==
    [][\A r \in JobIds :
          th'[r] = th[r] =>
              /\ \A f \in TempFileSet :
                    Holds(th[r], f) =>
                        /\ files'[f] = files[f]
                        /\ \A k \in JobIds \ {r} : Holds(th'[k], f) => Holds(th[k], f)
              /\ InTrim(th[r]) => chapters' = chapters]_vars

\* The thread has written the outcome of its run: lines 258, 261 and 268
\* are the last statements before the finally block.
OutcomeWritten(t) == t.pc \in {"set_clips", "set_error", "except_error"}

C12_EventuallyTerminal ==
    \A j \in JobIds :
        (th[j].pc = "start") ~>
            [](th[j].pc = "done" /\ j \in DOMAIN jobs /\ jobs[j].status \in Terminal)

\* One thread is over after main returned from the failed segmentation, the
\* other after main returned clips.
C12_Witness ==
    /\ th[1].pc = "done" /\ th[1].exit = "segment" /\ jobs[1].status = "failed"
    /\ th[2].pc = "done" /\ th[2].exit = "trim" /\ jobs[2].status = "completed"

\* C13: for every number of seconds n from 0 on, time_to_seconds gives n
\* back on the string format_time made of n.
C13_RoundTrip ==
    (codec.call = "format_time" /\ codec.pc = "returned")
        => (codec.result.ok /\ codec.result.val = codec.seconds)

\* 125 seconds were shown as "2:5" and read back.
C13_Witness ==
    /\ codec.call = "format_time" /\ codec.pc = "returned"
    /\ codec.seconds = 125 /\ codec.time_str = "2:5"

\* The number of separators in the time string.
Separators(time_str) == Cardinality({ k \in 1..Len(time_str) : Char(time_str, k) = ":" })

\* One of the parts between the separators is no integer for int().
NonNumericPart(time_str) ==
    LET parts == SplitColon(time_str, 1, "", << >>)
    IN  \E k \in 1..Len(parts) : ~ParseInt(parts[k]).ok

\* C14: time_to_seconds gives minutes * 60 + seconds for "m:ss" and the number
\* itself for bare seconds, and fails, giving no value, on a string with more
\* than one separator or with a part that is no number.
C14_MalformedTimeFails ==
    (codec.call = "time_to_seconds" /\ codec.pc = "returned")
        => /\ codec.time_str = "2:30" => codec.result = [ok |-> TRUE, val |-> 150]
           /\ codec.time_str = "45" => codec.result = [ok |-> TRUE, val |-> 45]
           /\ Separators(codec.time_str) > 1 => ~codec.result.ok
           /\ NonNumericPart(codec.time_str) => ~codec.result.ok

\* The topic the loop of trimVideo is at.
CurrentTopic(t) == t.segment_data.topics[t.i + 1]

\* time_to_seconds fails on the start or the end time of the topic.
Unparseable(topic) ==
    ~TimeTable[topic.start_time].ok \/ ~TimeTable[topic.end_time].ok

\* C15: the step of trimVideo on a topic whose start or end time cannot be
\* parsed drops that topic alone: nothing is cut, the clips made so far are
\* kept and the loop goes on to the next topic.
C15_InvalidCandidateDiscardedAlone ==
    [][\A j \in JobIds :
          (th[j].pc = "trim_cut" /\ th'[j] # th[j] /\ Unparseable(CurrentTopic(th[j])))
              => /\ chapterFiles' = chapterFiles
                 /\ InTrim(th'[j])
                 /\ th'[j].i = th[j].i + 1
                 /\ th'[j].created_clips = th[j].created_clips]_vars

\* The stage of main a thread is at: 1 fetch, 2 audio, 3 transcription,
\* 4 segmentation, 5 clips; 0 before main and 6 after it.
StageOf(t) ==
    CASE t.pc \in {"none", "start"} -> 0
      [] t.pc = "download" -> 1
      [] t.pc = "audio" -> 2
      [] t.pc = "transcribe" -> 3
      [] t.pc = "highlights" -> 4
      [] t.pc \in {"trim_exists", "trim_makedirs", "trim_cut", "trim_upload", "trim_rmdir"} -> 5
      [] OTHER -> 6

\* C16: every step of a thread in one of the first four stages leaves the
\* stage, for the next stage or for the end of main, so that no stage is
\* called twice; the next stage is entered with the file the stage made, and
\* with a non-empty transcript and a non-empty segmentation where the stage
\* gives one; the clip stage goes through the topics forward and is left for
\* the end of main; after main no stage is entered.
C16_StagesInOrder ==
    [][\A j \in JobIds :
          th'[j] # th[j] =>
              LET a == StageOf(th[j])
                  b == StageOf(th'[j])
              IN  /\ a = 0 => b \in {0, 1}
                  /\ a \in 1..4 => b \in {a + 1, 6}
                  /\ (a \in 1..4 /\ b = a + 1)
                        => /\ files'[TempFiles[a]]
                           /\ Holds(th'[j], TempFiles[a])
                           /\ a = 3 => th'[j].transcript_content # ""
                           /\ a = 4 => Truthy(th'[j].segment_data)
                  /\ a = 5 => (b \in {5, 6} /\ (b = 5 => th'[j].i >= th[j].i))
                  /\ a = 6 => b = 6]_vars

\* One thread went through the five stages, the other left main at the
\* transcription.
C16_Witness ==
    /\ th[1].pc = "done" /\ th[1].exit = "trim"
    /\ th[2].pc = "done" /\ th[2].exit = "transcribe"

\* The clip file of the topic the loop of trimVideo is at.
CurrentFile(t) == FilenameTable[t.i][CurrentTopic(t).title]

\* C17: the step after a successful cut either removes the clip file and
\* appends the clip (the upload succeeded) or leaves the file and appends
\* nothing (it failed); until then the file stays; and a clip file is
\* removed by no other step than the successful upload of that file.
C17_RemovedIffUploaded ==
    [][/\ \A j \in JobIds :
             th[j].pc = "trim_upload" =>
                 /\ CurrentFile(th[j]) \in chapterFiles
                 /\ th'[j] = th[j] => CurrentFile(th[j]) \in chapterFiles'
                 /\ th'[j] # th[j] =>
                       \/ /\ CurrentFile(th[j]) \notin chapterFiles'
                          /\ th'[j].created_clips =
                                Append(th[j].created_clips,
                                       [title |-> CurrentTopic(th[j]).title,
                                        url |-> PublicUrl(CurrentFile(th[j]))])
                       \/ /\ CurrentFile(th[j]) \in chapterFiles'
                          /\ th'[j].created_clips = th[j].created_clips
       /\ \A f \in chapterFiles \ chapterFiles' :
             \E j \in JobIds :
                 /\ th[j].pc = "trim_upload" /\ CurrentFile(th[j]) = f
                 /\ Len(th'[j].created_clips) = Len(th[j].created_clips) + 1]_vars

\* The upload of the first clip failed and its file is left; the second
\* clip was uploaded and its file removed.
C17_Witness ==
    \E j \in JobIds :
        /\ th[j].pc = "trim_rmdir"
        /\ chapterFiles = {"chapters/clip_1_Intro.mp4"}
        /\ Len(th[j].created_clips) = 1
        /\ th[j].created_clips[1].title = "Q&A 1"

\* C18: the step that answers an accepted submission starts the thread and
\* runs no stage of it; and wherever the threads are, and so with any of
\* them stopped inside a call for good, a submission can be answered, a
\* status query can be answered, and every other thread that is not over
\* can take its next step.
C18_NobodyWaits ==
    /\ [][submitted'.code = 202 =>
             /\ th'[submitted'.body.job_id].pc = "start"
             /\ \A k \in JobIds \ {submitted'.body.job_id} : th'[k] = th[k]
             /\ UNCHANGED << jobs, files, chapters, chapterFiles >>]_vars
    /\ [](/\ \A data \in Requests :
                (InvalidSource(data) \/ nextId < MaxJobs) => ENABLED create_clips(data)
          /\ query.pc = "idle" =>
                \A job_id \in QueryIds : ENABLED get_clips_status_lookup(job_id)
          /\ query.pc = "clips" => ENABLED get_clips_status_respond
          /\ \A j \in JobIds : th[j].pc \notin {"none", "done"} => ENABLED Runner(j))

\* The thread of job 1 is still in the fetch while job 2, submitted after
\* it, is over and its terminal status has just been served.
C18_Witness ==
    /\ th[1].pc = "download"
    /\ th[2].pc = "done"
    /\ response.code = 200 /\ response.request = 2
    /\ response.body.status \in Terminal

\* The clips are made of topics at strictly increasing positions, each with
\* the title of its topic and the URL of the file of that position.
ClipsOfTopics(clips, topics) ==
    \E f \in [1..Len(clips) -> 1..Len(topics)] :
        /\ \A k \in 1..(Len(clips) - 1) : f[k] < f[k + 1]
        /\ \A k \in 1..Len(clips) :
              clips[k] = [title |-> topics[f[k]].title,
                          url |-> PublicUrl(FilenameTable[f[k] - 1][topics[f[k]].title])]

\* C19: the clips of a completed job, and the clips a thread has made so
\* far, are clips of the topics the segmentation gave, in their order, with
\* their titles as given and at most one clip for a topic.
C19_ClipsFollowSegments ==
    \A j \in JobIds :
        /\ ClipsOfTopics(th[j].created_clips, th[j].segment_data.topics)
        /\ (j \in DOMAIN jobs /\ jobs[j].status = "completed")
              => ClipsOfTopics(jobs[j].clips, th[j].segment_data.topics)

\* Job 1 is completed with a clip for each of two topics, job 2 with a clip
\* for the second topic only.
C19_Witness ==
    /\ DOMAIN jobs = {1, 2}
    /\ jobs[1].status = "completed" /\ Len(jobs[1].clips) = 2
    /\ jobs[2].status = "completed" /\ Len(jobs[2].clips) = 1
    /\ jobs[2].clips[1].title = "Q&A 1"

\* C20: a record in the store stays in it with its created_at, and changes
\* only in a step of the thread of its own job; a record enters the store
\* in the first step of that thread; the steps of the two handlers change
\* no record; and 404 is answered only for an identifier with no record, so
\* not for one that was found before.
C20_RecordsIsolated ==
    [][/\ \A j \in DOMAIN jobs :
             /\ j \in DOMAIN jobs'
             /\ jobs'[j].created_at = jobs[j].created_at
             /\ jobs'[j] # jobs[j] => th'[j] # th[j]
       /\ \A j \in DOMAIN jobs' \ DOMAIN jobs : th[j].pc = "start" /\ th'[j] # th[j]
       /\ (submitted'.code # 0 \/ response'.code # 0 \/ query' # query) => jobs' = jobs
       /\ response'.code = 404 => response'.request \notin DOMAIN jobs']_vars

\* Both threads are over, the two records differ in status and created_at,
\* and the status of job 1 has just been served.
C20_Witness ==
    /\ th[1].pc = "done" /\ th[2].pc = "done"
    /\ jobs[1].status = "completed" /\ jobs[1].created_at = 1
    /\ jobs[2].status = "failed" /\ jobs[2].created_at = 2
    /\ response.code = 200 /\ response.request = 1

====
